---- MODULE Spec2Model ----
(***************************************************************************)
(* cosmic-dirstat: the directory scanner (analyze_dir) and the cutoff part *)
(* of the treemap partitioner (partition) of src/analyze.rs.               *)
(*                                                                         *)
(* The scan is modelled at the grain of its loop: one step per directory   *)
(* entry, with an explicit stack of activation frames for the recursion.   *)
(* The filesystem is the environment: what each read_dir / metadata /      *)
(* read_link call answers is chosen when the call is made and recorded in  *)
(* the history variable fs, against which the result is compared.          *)
(***************************************************************************)
EXTENDS Integers, Sequences, FiniteSets, TLC

VARIABLES
    pc,      \* "idle" | "scanning" | "returned" | "panicked" | "partitioned"
    stack,   \* activation frames of analyze_dir, innermost last
    result,  \* what the outermost analyze_dir returned: None, Ok(dir) or Err
    fs,      \* history: every filesystem object the scan has touched
    part,    \* the last call of partition: <<>> or <<[space, min, dir, items]>>
    app,     \* gui.rs App: [crawl_path, crawling_path, analyzed, error]
    tasks,   \* the scans Task::perform has started, in the order of their start
    state,   \* partition_view.rs State of the PartitionView widget
    IDX,     \* partition_view.rs:257, the static counter of box identifiers
    bounds,  \* the size the last layout pass found for the widget
    laid_out,\* history: layout has run since the tree or the size last changed
    gui_pc   \* "running" | "panicked"

scanvars == <<pc, stack, result, fs, part>>
appvars == <<app, tasks>>
viewvars == <<state, IDX, bounds, laid_out, gui_pc>>
guivars == <<appvars, viewvars>>
vars == <<scanvars, guivars>>

(***************************************************************************)
(* Bounds of the model and the values the environment answers with.        *)
(***************************************************************************)
\* entries below the root, over the whole scanned tree
MaxNodes == 3
\* nesting of directories, the root included
MaxDepth == 3

\* st_blocks and st_nlink as lstat reports them; st_nlink is whatever the
\* filesystem driver puts there (FUSE and some network filesystems report 0)
BlockCounts == {0, 1}
LinkCounts == {0, 1, 2}
\* raw symlink targets: the parent directory, which makes a cycle if followed
LinkTargets == {".."}
\* the file type lstat reports for an entry (a symlink is reported as such,
\* whatever it points to)
FileTypes == {"dir", "file", "symlink"}

\* metadata.blocks() is in units of 512 bytes (analyze.rs:102)
BLOCK_SIZE == 512

\* The boxes and cutoffs partition is called with.  A cutoff is the fraction
\* <<numerator, denominator>>.  Sides are 0 or powers of two and cutoffs are
\* dyadic, so that every f64 operation of partition is exact on them and the
\* integer arithmetic below computes what the floating-point code computes.
Spaces == {<<2, 0>>, <<1, 1>>, <<1, 2>>}
Mins == {<<0, 1>>, <<1, 2>>, <<1, 1>>, <<1025, 1024>>}

\* stands for u64::MAX, the value a cast of +infinity to u64 saturates to
\* (analyze.rs:166); every size of the model is far below it
U64_MAX == 2147483647

(***************************************************************************)
(* Options and results.                                                    *)
(***************************************************************************)
None == <<>>
Some(x) == <<x>>

NoResult == [tag |-> "None", dir |-> None]
Ok(d) == [tag |-> "Ok", dir |-> Some(d)]
Err == [tag |-> "Err", dir |-> None]

(***************************************************************************)
(* AnalyzedItem and its variants (analyze.rs:10-37).  A path is the        *)
(* sequence of entry names from the scanned root; the root is <<>>.        *)
(***************************************************************************)
AnalyzedDir(children, path, sz, num_symlinks, num_files, num_dirs) ==
    [kind |-> "Dir", children |-> children, path |-> path, size |-> sz,
     num_symlinks |-> num_symlinks, num_files |-> num_files,
     num_dirs |-> num_dirs]

AnalyzedFile(hardlink_count, sz, path) ==
    [kind |-> "File", hardlink_count |-> hardlink_count, size |-> sz,
     path |-> path]

AnalyzedSymlink(hardlink_count, sz, path, link) ==
    [kind |-> "Symlink", hardlink_count |-> hardlink_count, size |-> sz,
     path |-> path, link |-> link]

\* AnalyzedItem::size
size(item) == item.size

(***************************************************************************)
(* Pieces of analyze_dir.                                                  *)
(***************************************************************************)
RECURSIVE SumSizes(_)
SumSizes(s) == IF s = <<>> THEN 0 ELSE size(Head(s)) + SumSizes(Tail(s))

\* the sum, plus a block for the directory's own entry
DirSizeWithOwnBlock(children) == SumSizes(children) + BLOCK_SIZE

\* let size: u64 = children.iter().map(AnalyzedItem::size).sum();
DirSize(children) == SumSizes(children)

IsSortedDesc(s) == \A i \in 1..(Len(s) - 1) : size(s[i]) >= size(s[i + 1])

Perms(n) == {p \in [1..n -> 1..n] : \A i, j \in 1..n : p[i] = p[j] => i = j}

IsSortedAsc(s) == \A i \in 1..(Len(s) - 1) : size(s[i]) <= size(s[i + 1])

\* the sort without the Reverse: ascending
SortChildrenAscending(children) ==
    {t \in {[i \in 1..Len(children) |-> children[p[i]]] : p \in Perms(Len(children))} :
        IsSortedAsc(t)}

\* children.sort_unstable_by_key(|b| Reverse(b.size())): the order of equal
\* keys is not specified, so every descending arrangement is an outcome
SortChildren(children) ==
    {t \in {[i \in 1..Len(children) |-> children[p[i]]] : p \in Perms(Len(children))} :
        IsSortedDesc(t)}

\* let size = metadata.blocks() * 512 / hardlink_count;   (hardlink_count > 0)
FileSize(blocks, hardlink_count) == (blocks * BLOCK_SIZE) \div hardlink_count

\* a fresh activation of analyze_dir(dir), after read_dir succeeded
NewFrame(dir) ==
    [dir |-> dir, children |-> <<>>, num_symlinks |-> 0, num_files |-> 0,
     num_dirs |-> 0, next |-> 1]

Top(stk) == stk[Len(stk)]
ReplaceTop(stk, f) == [stk EXCEPT ![Len(stk)] = f]
Pop(stk) == SubSeq(stk, 1, Len(stk) - 1)

\* `continue`: on to the next entry of the directory, nothing else changed
Continue(f) == [f EXCEPT !.next = @ + 1]

\* lines 99-128: an entry that is not a directory.  link is the answer of
\* read_link, None when it failed; it is only asked for a symlink.
NonDirEntry(f, path, is_symlink, blocks, hardlink_count, link) ==
    LET sz == FileSize(blocks, hardlink_count)
        g == [Continue(f) EXCEPT !.num_files = @ + 1]
    IN  IF is_symlink
        THEN IF link = None
             THEN g
             ELSE [g EXCEPT !.num_symlinks = @ + 1,
                            !.children = Append(@,
                                AnalyzedSymlink(hardlink_count, sz, path, link[1]))]
        ELSE [g EXCEPT !.children = Append(@, AnalyzedFile(hardlink_count, sz, path))]

\* lines 88-98: the caller's match on the result r of the recursive call
SubdirResult(f, r) ==
    IF r.tag = "Err"
    THEN Continue(f)
    ELSE LET analyzed == r.dir[1]
         IN  [Continue(f) EXCEPT !.num_symlinks = @ + analyzed.num_symlinks,
                                 !.num_dirs = @ + analyzed.num_dirs + 1,
                                 !.num_files = @ + analyzed.num_files,
                                 !.children = Append(@, analyzed)]

\* the recursive call with `?`: an error of a subdirectory ends every
\* activation and reaches the program
ReturnToPropagatingErr(stk, r) ==
    IF stk = <<>> \/ r.tag = "Err"
    THEN [pc |-> "returned", stack |-> <<>>, result |-> r]
    ELSE [pc |-> "scanning", stack |-> ReplaceTop(stk, SubdirResult(Top(stk), r)),
          result |-> NoResult]

\* analyze_dir returns r: to the program when the activation was the
\* outermost one, else into the match of the calling activation
ReturnTo(stk, r) ==
    IF stk = <<>>
    THEN [pc |-> "returned", stack |-> <<>>, result |-> r]
    ELSE [pc |-> "scanning", stack |-> ReplaceTop(stk, SubdirResult(Top(stk), r)),
          result |-> NoResult]

\* a directory that cannot be listed taken for an empty one
ReadDirOrEmpty(stk, dir, readable) ==
    IF readable
    THEN [pc |-> "scanning", stack |-> Append(stk, NewFrame(dir)), result |-> NoResult]
    ELSE ReturnTo(stk, Ok(AnalyzedDir(<<>>, dir, 0, 0, 0, 0)))

\* line 65: let entries = std::fs::read_dir(dir)?;
ReadDir(stk, dir, readable) ==
    IF readable
    THEN [pc |-> "scanning", stack |-> Append(stk, NewFrame(dir)), result |-> NoResult]
    ELSE ReturnTo(stk, Err)

\* lines 131-142, given the arrangement the sort produced
Finish(f, sorted) ==
    Ok(AnalyzedDir(sorted, f.dir, DirSize(sorted), f.num_symlinks, f.num_files,
                   f.num_dirs))

(***************************************************************************)
(* The filesystem as the scan has seen it.  blocks and nlink are -1 where  *)
(* lstat gave no answer that the scan used.                                *)
(***************************************************************************)
FsEntry(path, kind, fail, blocks, nlink) ==
    [path |-> path, kind |-> kind, fail |-> fail, blocks |-> blocks, nlink |-> nlink]

RootPath == <<>>
EntryPath(f) == Append(f.dir, f.next)

(***************************************************************************)
(* partition (analyze.rs:164-199).  f64 values are NaN, the infinities, or *)
(* a fraction num/den with den > 0.                                        *)
(***************************************************************************)
NaN == [cls |-> "nan", num |-> 0, den |-> 1]
Inf == [cls |-> "inf", num |-> 1, den |-> 1]
NegInf == [cls |-> "inf", num |-> -1, den |-> 1]
Fin(num, den) == [cls |-> "fin", num |-> num, den |-> den]

Sign(n) == IF n > 0 THEN 1 ELSE IF n < 0 THEN -1 ELSE 0

\* a / b for finite a >= 0 and b >= 0 given as integers
F64Div(a, b) ==
    IF b # 0 THEN Fin(a, b) ELSE IF a = 0 THEN NaN ELSE Inf

\* a * b
F64Mul(a, b) ==
    IF a.cls = "nan" \/ b.cls = "nan" THEN NaN
    ELSE IF a.cls = "inf" \/ b.cls = "inf"
         THEN IF a.num = 0 \/ b.num = 0 THEN NaN
              ELSE IF Sign(a.num) * Sign(b.num) > 0 THEN Inf ELSE NegInf
         ELSE Fin(a.num * b.num, a.den * b.den)

\* x as u64: truncates toward zero and saturates; NaN becomes 0
AsU64(x) ==
    IF x.cls = "nan" THEN 0
    ELSE IF x.cls = "inf" THEN (IF x.num > 0 THEN U64_MAX ELSE 0)
    ELSE IF x.num <= 0 THEN 0
    ELSE IF x.num \div x.den > U64_MAX THEN U64_MAX ELSE x.num \div x.den

\* line 165
Scale(space, dir) == F64Div(dir.size, space[1] * space[2])

\* line 166
MinArea(space, min, dir) ==
    AsU64(F64Mul(Fin(min[1], min[2]), Scale(space, dir)))

\* the search with <= for <
EndIndexInclusive(children, min_area) ==
    LET below == {i \in 1..Len(children) : size(children[i]) <= min_area}
    IN  IF below = {} THEN None
        ELSE Some((CHOOSE i \in below : \A j \in below : i <= j) - 1)

\* lines 167-172: the (0-based) index of the first child below min_area
EndIndex(children, min_area) ==
    LET below == {i \in 1..Len(children) : size(children[i]) < min_area}
    IN  IF below = {} THEN None
        ELSE Some((CHOOSE i \in below : \A j \in below : i <= j) - 1)

PartitionElement(sz, item) == [size |-> sz, item |-> item]

\* the aggregate given the whole directory's size
AggregateSizeWhole(dir, accum) == dir.size

\* line 187: the weight of the aggregate element
AggregateSize(dir, accum) == dir.size - accum

\* lines 164-190: the elements, before the treemap crate places them
partition(space, min, dir) ==
    LET end_index == EndIndex(dir.children, MinArea(space, min, dir))
        n == IF end_index = None THEN Len(dir.children) ELSE end_index[1]
        items == [i \in 1..n |->
                     PartitionElement(size(dir.children[i]), Some(dir.children[i]))]
        accum == SumSizes(SubSeq(dir.children, 1, n))
    IN  IF end_index # None
        THEN Append(items, PartitionElement(AggregateSize(dir, accum), None))
        ELSE items

\* every Directory of a tree, the root included
RECURSIVE Dirs(_)
Dirs(d) ==
    {d} \cup UNION {Dirs(d.children[i]) :
                        i \in {j \in 1..Len(d.children) : d.children[j].kind = "Dir"}}

(***************************************************************************)
(* gui.rs: the application state and its update function.  A scan is a     *)
(* task started by Task::perform; its result comes back as the message     *)
(* Analyzed or AnalyzedError.                                              *)
(***************************************************************************)
\* the most scans started in one behaviour
MaxScans == 2
TaskIds == 1..MaxScans

\* the directories the user scans
PathA == <<"A">>
PathB == <<"B">>
CrawlPaths == {PathA, PathB}

\* results analyze_dir can give for them: A holds a directory d and a file h,
\* A after d was removed and h has grown, and B
TreeA1 ==
    AnalyzedDir(<<AnalyzedDir(<<AnalyzedFile(1, 512, <<"A", "d", "f">>),
                                AnalyzedFile(1, 512, <<"A", "d", "g">>)>>,
                              <<"A", "d">>, 1024, 0, 2, 0),
                  AnalyzedFile(1, 512, <<"A", "h">>)>>,
                PathA, 1536, 0, 3, 1)
TreeA2 == AnalyzedDir(<<AnalyzedFile(1, 1024, <<"A", "h">>)>>, PathA, 1024, 0, 1, 0)
TreeB == AnalyzedDir(<<AnalyzedFile(1, 512, <<"B", "k">>)>>, PathB, 512, 0, 1, 0)
SampleTrees == {TreeA1, TreeA2, TreeB}

\* gui.rs:244: what analyze_dir(&s) can return: the tree of a directory at
\* that path, or the error of read_dir (no directory there, or unreadable)
ScanOutcomes(s) ==
    {Ok(d) : d \in {x \in UNION {Dirs(t) : t \in SampleTrees} : x.path = s}} \cup {Err}

\* gui.rs:248: e.to_string() of the io error
IoError == "io error"

\* gui.rs:214-223
new_app ==
    [crawl_path |-> <<>>, crawling_path |-> FALSE, analyzed |-> None, error |-> None]

\* gui.rs:230-231
update_CrawlPathChanged(a, s) == [a EXCEPT !.crawl_path = s]

\* gui.rs:237-238
update_Crawl(a, s) == [a EXCEPT !.crawl_path = s]

\* gui.rs:243-252: the task is started and runs on the executor
perform(ts, s) ==
    Append(ts, [path |-> s, running |-> TRUE, result |-> NoResult, cancelled |-> FALSE])

\* gui.rs:254-262
update_CrawlPath(a, cancel) ==
    IF ~cancel
    THEN update_Crawl([a EXCEPT !.crawling_path = TRUE], a.crawl_path)
    ELSE [a EXCEPT !.crawling_path = FALSE]

\* a result that is dropped when the scan was cancelled
update_Analyzed_unless_cancelled(a, d) ==
    IF a.crawling_path
    THEN [a EXCEPT !.crawling_path = FALSE, !.analyzed = Some(d)]
    ELSE a

\* gui.rs:273-276
update_Analyzed(a, d) == [a EXCEPT !.crawling_path = FALSE, !.analyzed = Some(d)]

\* an error that also forgets the tree shown
update_AnalyzedError_clearing(a, e) ==
    [a EXCEPT !.crawling_path = FALSE, !.error = Some(e), !.analyzed = None]

\* gui.rs:277-280
update_AnalyzedError(a, e) == [a EXCEPT !.crawling_path = FALSE, !.error = Some(e)]

\* gui.rs:281
update_ClearError(a) == [a EXCEPT !.error = None]

(***************************************************************************)
(* partition_view.rs: the state of the widget                              *)
(***************************************************************************)
\* usize::MAX, the value of State.highlighted when no box is highlighted
USIZE_MAX == 2147483647

\* Size::ZERO
ZERO == <<0, 0>>

\* partition_view.rs:216-227; made_from is history, the tree the boxes were
\* made from
new_state ==
    [boxes |-> <<>>, highlighted |-> USIZE_MAX,
     contructed_for |-> ZERO, constructed_for_path |-> <<>>, made_from |-> None]

(***************************************************************************)
(* partition_view.rs: the nested boxes.  Lengths are in fifths of a pixel, *)
(* so that text_offset * 1.4 is a whole number.                            *)
(***************************************************************************)
\* gui.rs:101, text_size 8.0
TEXT_SIZE == 40
\* gui.rs:102, minimum_area 8.0 * 8.0, as a fraction
MINIMUM_AREA == <<1600, 1>>

\* text_offset * 1.4, the height of the header strip
HeaderHeight(text_offset) == (14 * text_offset) \div 10

Rect(x, y, w, h) == [x |-> x, y |-> y, w |-> w, h |-> h]

\* how the treemap crate cuts the rectangle it is given: into rows or into
\* columns, the other way round one level further down
Placings == {"rows", "cols"}
Flip(placing) == IF placing = "rows" THEN "cols" ELSE "rows"

RECURSIVE PrefixSize(_, _)
PrefixSize(items, i) == IF i = 0 THEN 0 ELSE PrefixSize(items, i - 1) + items[i].size

\* the end of the i-th strip when a side of length len is cut in proportion
Cut(len, items, i) ==
    LET total == PrefixSize(items, Len(items))
    IN  IF total = 0 THEN 0 ELSE (len * PrefixSize(items, i)) \div total

\* analyze.rs:192-196: TreemapLayout::layout_items places the elements
\* inside Rect::from_points(0, 0, space.0, space.1)
layout_items(items, space, placing) ==
    [i \in 1..Len(items) |->
        IF placing = "cols"
        THEN Rect(Cut(space[1], items, i - 1), 0,
                  Cut(space[1], items, i) - Cut(space[1], items, i - 1), space[2])
        ELSE Rect(0, Cut(space[2], items, i - 1),
                  space[1], Cut(space[2], items, i) - Cut(space[2], items, i - 1))]

\* the test the other way: the height left under the header is below the header's
TooSmallUnderHeader(space, text_offset) ==
    space[2] - HeaderHeight(text_offset) < HeaderHeight(text_offset)

\* partition_view.rs:259
TooSmall(space, text_offset) == space[2] < HeaderHeight(text_offset)

\* the placement left where the treemap crate put it
NotOffset(bounds_, text_offset) == bounds_

\* partition_view.rs:269-271
Offset(bounds_, text_offset) == [bounds_ EXCEPT !.y = @ + HeaderHeight(text_offset)]

\* a counter that is read and not advanced
fetch_add_nothing(idx) == idx

\* partition_view.rs:309: IDX.fetch_add(1), the counter after it
fetch_add(idx) == idx + 1

Branched(boxes) == [tag |-> "Branched", boxes |-> boxes]
Leaf == [tag |-> "Leaf", boxes |-> <<>>]

\* partition_view.rs:302-314
StateBox(d, placement, sz, analyzed_item, idx) ==
    [d |-> d, placement |-> placement, size |-> sz,
     analyzed_item |-> analyzed_item, idx |-> idx]

\* partition_view.rs:249-317; both give [boxes, idx]: the boxes made and
\* the value of IDX after them
RECURSIVE recursive_box(_, _, _, _, _, _)
RECURSIVE map_items(_, _, _, _, _, _, _)
recursive_box(space, min, dir, text_offset, placing, idx) ==
    IF TooSmall(space, text_offset)
    THEN [boxes |-> <<>>, idx |-> idx]
    ELSE LET inner == <<space[1], space[2] - HeaderHeight(text_offset)>>
             partitioned == partition(inner, min, dir)
             placed == layout_items(partitioned, inner, placing)
         IN  map_items(partitioned, placed, 1, min, text_offset, placing, idx)

\* partition_view.rs:266-316: the closure of map, on the items from the i-th
map_items(partitioned, placed, i, min, text_offset, placing, idx) ==
    IF i > Len(partitioned)
    THEN [boxes |-> <<>>, idx |-> idx]
    ELSE LET item == partitioned[i]
             bounds_ == Offset(placed[i], text_offset)
             is_branch == item.item # None /\ item.item[1].kind = "Dir"
             inside == IF is_branch
                       THEN recursive_box(<<bounds_.w, bounds_.h>>, min, item.item[1],
                                          text_offset, Flip(placing), idx)
                       ELSE [boxes |-> <<>>, idx |-> idx]
             d == IF is_branch THEN Branched(inside.boxes) ELSE Leaf
             box == StateBox(d, bounds_, item.size, item.item, inside.idx)
             rest == map_items(partitioned, placed, i + 1, min, text_offset, placing,
                               fetch_add(inside.idx))
         IN  [boxes |-> <<box>> \o rest.boxes, idx |-> rest.idx]

\* Rectangle::contains
contains(quad_bounds, p) ==
    /\ quad_bounds.x <= p[1]
    /\ p[1] < quad_bounds.x + quad_bounds.w
    /\ quad_bounds.y <= p[2]
    /\ p[2] < quad_bounds.y + quad_bounds.h

\* partition_view.rs:31-51: None, or Some of the box found and its parent
RECURSIVE recurse_find(_, _, _)
recurse_find(self, at, p) ==
    LET bnds == self.placement
        quad_bounds == Rect(bnds.x + at[1], bnds.y + at[2], bnds.w, bnds.h)
        found(ele) == recurse_find(ele, <<quad_bounds.x, quad_bounds.y>>, p)
        hits == {i \in 1..Len(self.d.boxes) : found(self.d.boxes[i]) # None}
    IN  IF contains(quad_bounds, p)
        THEN IF self.d.tag = "Branched" /\ hits # {}
             THEN LET first == CHOOSE i \in hits : \A j \in hits : i <= j
                      q == found(self.d.boxes[first])[1]
                  IN  Some([f |-> q.f,
                            parent |-> Some(IF q.parent = None THEN self ELSE q.parent[1])])
             ELSE Some([f |-> self, parent |-> None])
        ELSE None

\* partition_view.rs:381-385: find_map over the top-level boxes
find_map(boxes, p) ==
    LET hits == {i \in 1..Len(boxes) : recurse_find(boxes[i], ZERO, p) # None}
    IN  IF hits = {} THEN None
        ELSE recurse_find(boxes[CHOOSE i \in hits : \A j \in hits : i <= j], ZERO, p)

\* analyze.rs: AnalyzedItem::path
item_path(item) == item.path

\* partition_view.rs:405-417: the path on_click is given; "panic" where
\* unwrap meets None
on_click_path(f, parent) ==
    IF f.analyzed_item # None THEN Some(item_path(f.analyzed_item[1]))
    ELSE IF parent # None
         THEN IF parent[1].analyzed_item # None
              THEN Some(item_path(parent[1].analyzed_item[1]))
              ELSE None
         ELSE None

\* partition_view.rs:246-247
must_rebuild(st, sz, items) ==
    sz # st.contructed_for \/ items.path # st.constructed_for_path

Init ==
    /\ pc = "idle"
    /\ stack = <<>>
    /\ result = NoResult
    /\ fs = {}
    /\ part = None
    /\ app = new_app
    /\ tasks = <<>>
    /\ state = new_state
    /\ IDX = 0
    /\ bounds = ZERO
    /\ laid_out = FALSE
    /\ gui_pc = "running"

Goto(m) ==
    /\ pc' = m.pc
    /\ stack' = m.stack
    /\ result' = m.result

\* the program calls analyze_dir on the chosen root
Call ==
    /\ pc = "idle"
    /\ \E readable \in BOOLEAN :
        /\ Goto(ReadDir(<<>>, RootPath, readable))
        /\ fs' = {FsEntry(RootPath, "dir", IF readable THEN "none" ELSE "read_dir", -1, -1)}
    /\ UNCHANGED <<part, guivars>>

MoreEntries ==
    /\ pc = "scanning"
    /\ Cardinality(fs) <= MaxNodes

\* lines 71-77: the directory iterator yields an error
EntryErr ==
    /\ MoreEntries
    /\ LET f == Top(stack)
       IN  /\ stack' = ReplaceTop(stack, Continue(f))
           /\ fs' = fs \cup {FsEntry(EntryPath(f), "unknown", "entry", -1, -1)}
    /\ UNCHANGED <<pc, result, part, guivars>>

\* lines 78-84: entry.metadata() fails
MetadataErr ==
    /\ MoreEntries
    /\ LET f == Top(stack)
       IN  /\ stack' = ReplaceTop(stack, Continue(f))
           /\ fs' = fs \cup {FsEntry(EntryPath(f), "unknown", "metadata", -1, -1)}
    /\ UNCHANGED <<pc, result, part, guivars>>

\* the classification with the metadata of the link's target (fs::metadata
\* for DirEntry::metadata): a symlink to a directory is a directory
is_dir_following(ftype) == ftype \in {"dir", "symlink"}

\* lines 78 and 87: metadata.is_dir(), on metadata that entry.metadata() took
\* without following a symlink
is_dir(ftype) == ftype = "dir"

\* line 105: metadata.is_symlink()
is_symlink_type(ftype) == ftype = "symlink"

\* lines 87-88: the entry is a directory; analyze_dir is called on it
EnterDir ==
    /\ MoreEntries
    /\ \E ftype \in FileTypes, readable \in BOOLEAN :
        /\ is_dir(ftype)
        /\ readable => Len(stack) < MaxDepth
        /\ LET f == Top(stack)
           IN  /\ Goto(ReadDir(stack, EntryPath(f), readable))
               /\ fs' = fs \cup {FsEntry(EntryPath(f), ftype,
                                         IF readable THEN "none" ELSE "read_dir", -1, -1)}
    /\ UNCHANGED <<part, guivars>>

\* lines 99-128: the entry is a regular file or a symlink
LeafEntry ==
    /\ MoreEntries
    /\ \E ftype \in FileTypes, blocks \in BlockCounts, nlink \in LinkCounts,
          link \in {None} \cup {Some(t) : t \in LinkTargets} :
        /\ ~is_dir(ftype)
        /\ ~is_symlink_type(ftype) => link = None
        /\ LET f == Top(stack)
               is_symlink == is_symlink_type(ftype)
               failed == is_symlink /\ link = None /\ nlink # 0
           IN  /\ IF nlink = 0
                  THEN \* line 102 divides by zero: the thread panics
                       /\ pc' = "panicked"
                       /\ UNCHANGED stack
                  ELSE /\ stack' = ReplaceTop(stack,
                              NonDirEntry(f, EntryPath(f), is_symlink, blocks, nlink, link))
                       /\ UNCHANGED pc
               /\ fs' = fs \cup {FsEntry(EntryPath(f), ftype,
                                         IF failed THEN "read_link" ELSE "none",
                                         IF failed THEN -1 ELSE blocks,
                                         IF failed THEN -1 ELSE nlink)}
    /\ UNCHANGED <<result, part, guivars>>

\* the iterator is exhausted: lines 131-142, and the return to the caller
EndOfDir ==
    /\ pc = "scanning"
    /\ \E sorted \in SortChildren(Top(stack).children) :
        Goto(ReturnTo(Pop(stack), Finish(Top(stack), sorted)))
    /\ UNCHANGED <<fs, part, guivars>>

\* partition is called on a directory of the scanned tree
Partition ==
    /\ pc = "returned"
    /\ result.tag = "Ok"
    /\ \E dir \in Dirs(result.dir[1]), space \in Spaces, min \in Mins :
        part' = Some([space |-> space, min |-> min, dir |-> dir,
                      items |-> partition(space, min, dir)])
    /\ pc' = "partitioned"
    /\ UNCHANGED <<stack, result, fs, guivars>>

Next ==
    \/ Call
    \/ EntryErr
    \/ MetadataErr
    \/ EnterDir
    \/ LeafEntry
    \/ EndOfDir
    \/ Partition

Spec == Init /\ [][Next]_vars

\* one call of analyze_dir, run to its end: the scan is a single task that
\* nothing preempts for ever (gui.rs:243-244)
NextScan ==
    \/ Call
    \/ EntryErr
    \/ MetadataErr
    \/ EnterDir
    \/ LeafEntry
    \/ EndOfDir

SpecScan == Init /\ [][NextScan]_vars /\ WF_vars(NextScan)

(***************************************************************************)
(* The messages of gui.rs, one action per arm of App::update               *)
(***************************************************************************)
GuiRunning == gui_pc = "running"

\* the ghost field cancelled: a cancel was handled while the task ran
MarkCancelled(ts) ==
    [n \in 1..Len(ts) |-> IF ts[n].running THEN [ts[n] EXCEPT !.cancelled = TRUE] ELSE ts[n]]

\* gui.rs:146-147 and 230-236: the text of the path input changed
CrawlPathChanged ==
    /\ GuiRunning
    /\ \E s \in CrawlPaths : app' = update_CrawlPathChanged(app, s)
    /\ UNCHANGED <<scanvars, tasks, viewvars>>

\* gui.rs:237-253: Msg::Crawl(s), here from the go-up button
Crawl ==
    /\ GuiRunning
    /\ Len(tasks) < MaxScans
    /\ \E s \in CrawlPaths :
        /\ app' = update_Crawl(app, s)
        /\ tasks' = perform(tasks, s)
    /\ UNCHANGED <<scanvars, viewvars>>

\* gui.rs:148-155 and 254-262: the Scan / Cancel button, which sends
\* cancel = crawling_path
CrawlPath ==
    /\ GuiRunning
    /\ LET cancel == app.crawling_path
       IN  /\ ~cancel => Len(tasks) < MaxScans
           /\ app' = update_CrawlPath(app, cancel)
           /\ tasks' = IF cancel THEN MarkCancelled(tasks) ELSE perform(tasks, app.crawl_path)
    /\ UNCHANGED <<scanvars, viewvars>>

\* gui.rs:247 and 273-276: task n ends with Ok and its message is handled
AnalyzedOf(n) ==
    /\ GuiRunning
    /\ n <= Len(tasks)
    /\ tasks[n].running
    /\ \E r \in ScanOutcomes(tasks[n].path) :
        /\ r.tag = "Ok"
        /\ tasks' = [tasks EXCEPT ![n].running = FALSE, ![n].result = r]
        /\ app' = update_Analyzed(app, r.dir[1])
    /\ laid_out' = FALSE
    /\ UNCHANGED <<scanvars, state, IDX, bounds, gui_pc>>

Analyzed == \E n \in TaskIds : AnalyzedOf(n)

\* gui.rs:248 and 277-280: task n ends with Err and its message is handled
AnalyzedErrorOf(n) ==
    /\ GuiRunning
    /\ n <= Len(tasks)
    /\ tasks[n].running
    /\ \E r \in ScanOutcomes(tasks[n].path) :
        /\ r.tag = "Err"
        /\ tasks' = [tasks EXCEPT ![n].running = FALSE, ![n].result = r]
        /\ app' = update_AnalyzedError(app, IoError)
    /\ UNCHANGED <<scanvars, viewvars>>

AnalyzedError == \E n \in TaskIds : AnalyzedErrorOf(n)

\* gui.rs:281 and 292-299: OK in the error dialog, shown while error is set
ClearError ==
    /\ GuiRunning
    /\ app.error # None
    /\ app' = update_ClearError(app)
    /\ UNCHANGED <<scanvars, tasks, viewvars>>

\* gui.rs:263-272 and 282-286: CrawlPathDialogue, PaneResize,
\* ExtensionLegendChanged and NewItemHighlighted write none of crawl_path,
\* crawling_path, analyzed and error
OtherMsg ==
    /\ GuiRunning
    /\ UNCHANGED vars

NextApp ==
    \/ CrawlPathChanged
    \/ OtherMsg
    \/ Crawl
    \/ CrawlPath
    \/ Analyzed
    \/ AnalyzedError
    \/ ClearError

\* every task the executor was given runs to its end and its message is
\* handled (cosmic::executor::Default, gui.rs:174)
SpecApp ==
    /\ Init
    /\ [][NextApp]_vars
    /\ \A n \in TaskIds : WF_vars(AnalyzedOf(n) \/ AnalyzedErrorOf(n))

(***************************************************************************)
(* Vocabulary of the properties.                                           *)
(***************************************************************************)
Returned == pc \in {"returned", "partitioned"}
ScanOk == Returned /\ result.tag = "Ok"
Root == result.dir[1]

Parent(path) == SubSeq(path, 1, Len(path) - 1)
IsBelow(path, dirpath) ==
    /\ Len(path) > Len(dirpath)
    /\ SubSeq(path, 1, Len(dirpath)) = dirpath

\* every node of a directory's subtree, the directory itself excluded
RECURSIVE Nodes(_)
Nodes(d) ==
    {d.children[i] : i \in 1..Len(d.children)}
        \cup UNION {Nodes(d.children[i]) :
                       i \in {j \in 1..Len(d.children) : d.children[j].kind = "Dir"}}

\* the sum of the size fields of the first n elements of a sequence
RECURSIVE TotalOf(_, _)
TotalOf(s, n) == IF n = 0 THEN 0 ELSE s[n].size + TotalOf(s, n - 1)

Skipped == {e \in fs : e.path # RootPath /\ e.fail # "none"}
Kept(dirpath) == {e \in fs : e.path # RootPath /\ Parent(e.path) = dirpath /\ e.fail = "none"}
RootUnreadable == FsEntry(RootPath, "dir", "read_dir", -1, -1) \in fs

Partitioned == pc = "partitioned"
P == part[1]
PArea == P.space[1] * P.space[2]
\* sz >= min * dir.size / area and sz < min * dir.size / area, over the reals
\* extended with the f64 special values (a comparison with NaN is false)
ThresholdIsNaN ==
    PArea = 0 /\ (P.dir.size = 0 \/ P.min[1] = 0)
ThresholdIsInf == PArea = 0 /\ P.dir.size > 0 /\ P.min[1] > 0
AtLeastThreshold(sz) ==
    /\ PArea > 0
    /\ sz * P.min[2] * PArea >= P.min[1] * P.dir.size
BelowThreshold(sz) ==
    \/ ThresholdIsInf
    \/ PArea > 0 /\ sz * P.min[2] * PArea < P.min[1] * P.dir.size
IsAggregate(e) == e.item = None

(***************************************************************************)
(* C1: in the tree a successful analyze_dir returns, the size of every     *)
(* Directory, at every depth, is the sum of the sizes of its children,     *)
(* also when entries were skipped.                                         *)
(***************************************************************************)
C1_DirSizeIsSumOfChildren ==
    ScanOk => \A d \in Dirs(Root) : d.size = TotalOf(d.children, Len(d.children))

\* a subdirectory of positive size one of whose entries was skipped
C1_Witness ==
    /\ ScanOk
    /\ \E d \in Dirs(Root) :
        /\ d.path # RootPath
        /\ d.size > 0
        /\ \E e \in Skipped : Parent(e.path) = d.path

(***************************************************************************)
(* C2: in the tree a successful analyze_dir returns, the children of every *)
(* Directory, at every depth, are in order of non-increasing size.         *)
(***************************************************************************)
C2_ChildrenSortedDescending ==
    ScanOk => \A d \in Dirs(Root) :
                 \A i \in 1..(Len(d.children) - 1) :
                    d.children[i].size >= d.children[i + 1].size

\* a subdirectory whose larger child was read after its smaller one
C2_Witness ==
    /\ ScanOk
    /\ \E d \in Dirs(Root) :
        /\ d.path # RootPath
        /\ Len(d.children) >= 2
        /\ d.children[1].size > d.children[2].size
        /\ d.children[1].path[Len(d.children[1].path)]
               > d.children[2].path[Len(d.children[2].path)]

(***************************************************************************)
(* C3: for every Directory D of the result, num_files, num_dirs and        *)
(* num_symlinks are the numbers of File, Dir and Symlink nodes in D's      *)
(* subtree of the result, and, where nothing below D was skipped, the      *)
(* numbers of regular files, directories and symlinks the filesystem holds *)
(* below D.                                                                *)
(***************************************************************************)
NodeCount(d, kind) == Cardinality({n \in Nodes(d) : n.kind = kind})
FsCount(d, kind) == Cardinality({e \in fs : IsBelow(e.path, d.path) /\ e.kind = kind})

C3_CountsAreRecursiveCounts ==
    ScanOk => \A d \in Dirs(Root) :
        /\ d.num_files = NodeCount(d, "File")
        /\ d.num_dirs = NodeCount(d, "Dir")
        /\ d.num_symlinks = NodeCount(d, "Symlink")
        /\ (\A e \in Skipped : ~IsBelow(e.path, d.path)) =>
              /\ d.num_files = FsCount(d, "file")
              /\ d.num_dirs = FsCount(d, "dir")
              /\ d.num_symlinks = FsCount(d, "symlink")

(***************************************************************************)
(* C4: an entry below the root that fails (the iterator, its metadata, the *)
(* listing of a subdirectory, its link target) never makes analyze_dir     *)
(* return an error; when analyze_dir returns, it returns Ok, and the       *)
(* children of every Directory are exactly the entries of it that did not  *)
(* fail.                                                                   *)
(***************************************************************************)
C4_EntryFailureNotFatal ==
    Skipped # {} =>
        /\ result.tag # "Err"
        /\ Returned => result.tag = "Ok"
        /\ ScanOk => \A d \in Dirs(Root) :
              {d.children[i].path : i \in 1..Len(d.children)}
                  = {e.path : e \in Kept(d.path)}

\* an unreadable subdirectory of the root next to a file that is in the result
C4_Witness ==
    /\ ScanOk
    /\ \E e \in Skipped, k \in Kept(RootPath) :
        /\ e.fail = "read_dir"
        /\ Parent(e.path) = RootPath
        /\ k.kind = "file"
        /\ \E i \in 1..Len(Root.children) : Root.children[i].path = k.path

(***************************************************************************)
(* C5: when the root cannot be opened analyze_dir returns an error and no  *)
(* tree, and in no other case does it return an error.                     *)
(***************************************************************************)
C5_OnlyRootFailureIsAnError ==
    /\ (Returned /\ RootUnreadable) => result = Err
    /\ RootUnreadable => Returned
    /\ result.tag = "Err" => RootUnreadable /\ result.dir = None

C5_Witness ==
    /\ pc = "returned"
    /\ RootUnreadable
    /\ result.tag = "Err"

(***************************************************************************)
(* C6: computing the size of a file or symlink never divides by zero, and  *)
(* every File and Symlink node has hardlink_count >= 1 and                 *)
(* size = blocks * 512 / hardlink_count.                                   *)
(***************************************************************************)
C6_SizeIsBlocksOverLinks ==
    /\ pc # "panicked"
    /\ \A e \in fs : e.kind \in {"file", "symlink"} /\ e.fail = "none" => e.nlink >= 1
    /\ ScanOk => \A n \in Nodes(Root) :
          n.kind \in {"File", "Symlink"} =>
              /\ n.hardlink_count >= 1
              /\ \E e \in fs :
                    /\ e.path = n.path
                    /\ n.hardlink_count = e.nlink
                    /\ n.size * e.nlink <= e.blocks * BLOCK_SIZE
                    /\ e.blocks * BLOCK_SIZE < (n.size + 1) * e.nlink

(***************************************************************************)
(* C7: the weights of the elements partition returns, the aggregate        *)
(* included, sum to the size of the directory, for every box and cutoff.   *)
(***************************************************************************)
C7_WeightsSumToDirSize ==
    Partitioned => TotalOf(P.items, Len(P.items)) = P.dir.size

\* some children placed, the rest aggregated with positive weight
C7_Witness ==
    /\ Partitioned
    /\ Len(P.items) >= 2
    /\ IsAggregate(P.items[Len(P.items)])
    /\ P.items[Len(P.items)].size > 0
    /\ P.items[1].size > 0

(***************************************************************************)
(* C8: when every child's size is at least the threshold                   *)
(* min * dir.size / area, partition returns one element per child, in the  *)
(* children's order, each with its child and the child's size, and no      *)
(* aggregate; with min = 0 a directory of n children yields n elements.    *)
(***************************************************************************)
OneElementPerChild ==
    /\ Len(P.items) = Len(P.dir.children)
    /\ \A i \in 1..Len(P.items) :
        /\ P.items[i].item = Some(P.dir.children[i])
        /\ P.items[i].size = P.dir.children[i].size

C8_NoAggregateWhenAllAboveThreshold ==
    Partitioned =>
        /\ (\A i \in 1..Len(P.dir.children) : AtLeastThreshold(P.dir.children[i].size))
              => OneElementPerChild
        /\ P.min[1] = 0 => OneElementPerChild

\* two children, the smaller one exactly at a positive threshold
C8_Witness ==
    /\ Partitioned
    /\ P.min[1] > 0
    /\ Len(P.dir.children) >= 2
    /\ \A i \in 1..Len(P.dir.children) : AtLeastThreshold(P.dir.children[i].size)
    /\ \E i \in 1..Len(P.dir.children) :
          P.dir.children[i].size * P.min[2] * PArea = P.min[1] * P.dir.size
    /\ P.dir.size > 0
    /\ OneElementPerChild

(***************************************************************************)
(* C9: when some child's size is below the threshold min * dir.size / area *)
(* partition returns exactly one aggregate element, in the last place; the *)
(* children without an element of their own are exactly those below the    *)
(* threshold, and the aggregate's weight is the sum of their sizes.        *)
(***************************************************************************)
PlacedChildren == {P.items[i].item[1] : i \in {j \in 1..Len(P.items) : ~IsAggregate(P.items[j])}}
ChildSet == {P.dir.children[i] : i \in 1..Len(P.dir.children)}
RECURSIVE SetTotal(_)
SetTotal(S) == IF S = {} THEN 0 ELSE LET x == CHOOSE y \in S : TRUE
                                     IN  x.size + SetTotal(S \ {x})

C9_OneAggregateForChildrenBelowThreshold ==
    (Partitioned /\ \E c \in ChildSet : BelowThreshold(c.size)) =>
        /\ Cardinality({i \in 1..Len(P.items) : IsAggregate(P.items[i])}) = 1
        /\ IsAggregate(P.items[Len(P.items)])
        /\ ChildSet \ PlacedChildren = {c \in ChildSet : BelowThreshold(c.size)}
        /\ P.items[Len(P.items)].size = SetTotal(ChildSet \ PlacedChildren)

(***************************************************************************)
(* C10: partitioning a directory of size 0, with no children or with       *)
(* children all of size 0, returns no element, for every box and cutoff.   *)
(***************************************************************************)
C10_ZeroSizeDirPartitionsToNothing ==
    (Partitioned /\ P.dir.size = 0) => P.items = <<>>

(***************************************************************************)
(* C13: the scan never follows a symbolic link.  An entry that lstat       *)
(* reports as a symlink is never listed (no activation of analyze_dir is   *)
(* for it, nothing below it is ever read), it is recorded as a Symlink     *)
(* leaf carrying the raw target read_link gave, and the scan ends.         *)
(***************************************************************************)
Symlinks == {e \in fs : e.kind = "symlink"}
ScanEnded == pc \in {"returned", "panicked"}

C13_SymlinkIsALeaf ==
    /\ \A e \in Symlinks :
        /\ \A i \in 1..Len(stack) : stack[i].dir # e.path
        /\ \A x \in fs : ~IsBelow(x.path, e.path)
        /\ e.fail \in {"none", "read_link"}
    /\ ScanOk => \A e \in Symlinks :
          e.fail = "none" =>
              \E n \in Nodes(Root) :
                  /\ n.path = e.path
                  /\ n.kind = "Symlink"
                  /\ n.link \in LinkTargets

C13_NeverFollowsSymlinks == []C13_SymlinkIsALeaf /\ <>ScanEnded

\* a symlink to the parent directory, inside a subdirectory, in the result
C13_Witness ==
    /\ ScanOk
    /\ \E n \in Nodes(Root) :
        /\ n.kind = "Symlink"
        /\ n.link = ".."
        /\ Len(n.path) >= 2

(***************************************************************************)
(* The PartitionView widget: layout and the mouse events                   *)
(***************************************************************************)
\* the most identifiers handed out before the last rebuild starts
MaxIdx == 2

\* the sizes the window gives the widget (20 px is 100)
WidgetSizes == {<<112, 28>>, <<112, 84>>, <<112, 112>>, <<168, 168>>}

\* where the cursor is: four points inside the widget, a quarter of its
\* width and of its height away from its sides
CursorPositions(sz) ==
    {<<x, y>> : x \in {sz[1] \div 4, (3 * sz[1]) \div 4},
                y \in {sz[2] \div 4, (3 * sz[2]) \div 4}}

\* partition_view.rs:236-361, for the tree gui.rs:97-106 gives the widget
Layout ==
    /\ GuiRunning
    /\ app.analyzed # None
    /\ \E sz \in WidgetSizes, placing \in Placings :
        LET items == app.analyzed[1]
            r == recursive_box(sz, MINIMUM_AREA, items, TEXT_SIZE, placing, IDX)
        IN  /\ IF must_rebuild(state, sz, items)
               THEN /\ IDX < MaxIdx
                    /\ state' = [state EXCEPT !.boxes = r.boxes,
                                              !.contructed_for = sz,
                                              !.constructed_for_path = items.path,
                                              !.made_from = Some(items)]
                    /\ IDX' = r.idx
               ELSE UNCHANGED <<state, IDX>>
            /\ bounds' = sz
    /\ laid_out' = TRUE
    /\ UNCHANGED <<scanvars, appvars, gui_pc>>

\* partition_view.rs:381-401: Event::Mouse(CursorMoved)
CursorMoved ==
    /\ GuiRunning
    /\ laid_out
    /\ \E p \in CursorPositions(bounds) :
        LET highlighted == find_map(state.boxes, p)
        IN  state' = [state EXCEPT !.highlighted =
                         IF highlighted = None THEN USIZE_MAX ELSE highlighted[1].f.idx]
    /\ UNCHANGED <<scanvars, appvars, IDX, bounds, laid_out, gui_pc>>

\* partition_view.rs:402-419: Event::Mouse(ButtonPressed(Left)); the message
\* on_click makes is Msg::Crawl (gui.rs:103), handled by update
ButtonPressed ==
    /\ GuiRunning
    /\ laid_out
    /\ \E p \in CursorPositions(bounds) :
        LET highlighted == find_map(state.boxes, p)
            clicked == on_click_path(highlighted[1].f, highlighted[1].parent)
        IN  IF highlighted = None
            THEN UNCHANGED <<appvars, gui_pc>>
            ELSE IF clicked = None
                 THEN /\ gui_pc' = "panicked"
                      /\ UNCHANGED appvars
                 ELSE /\ Len(tasks) < MaxScans
                      /\ app' = update_Crawl(app, clicked[1])
                      /\ tasks' = perform(tasks, clicked[1])
                      /\ UNCHANGED gui_pc
    /\ UNCHANGED <<scanvars, state, IDX, bounds, laid_out>>

NextView ==
    \/ Crawl
    \/ Analyzed
    \/ AnalyzedError
    \/ Layout
    \/ CursorMoved
    \/ ButtonPressed

SpecView == Init /\ [][NextView]_vars

(***************************************************************************)
(* Vocabulary of the claims about gui.rs                                   *)
(***************************************************************************)
\* this step ends task n: its message is the one update handles
Delivered(n) == n <= Len(tasks) /\ tasks[n].running /\ ~tasks'[n].running
Running == {n \in 1..Len(tasks) : tasks[n].running}
SucceededTask(n) == n <= Len(tasks) /\ ~tasks[n].running /\ tasks[n].result.tag = "Ok"

(***************************************************************************)
(* C16: a cancel handled while scans are in flight clears crawling_path    *)
(* and nothing else: every scan stays in flight, each one cancelled is     *)
(* still delivered, and the delivery writes analyzed (or error) as it      *)
(* does for a scan that was never cancelled.                               *)
(***************************************************************************)
CancelOnlyClearsFlag ==
    (app.crawling_path /\ CrawlPath) =>
        /\ app' = [app EXCEPT !.crawling_path = FALSE]
        /\ Running' = Running
        /\ \A n \in Running : tasks'[n].path = tasks[n].path

DeliveryWritesResult ==
    \A n \in TaskIds :
        Delivered(n) =>
            IF tasks'[n].result.tag = "Ok"
            THEN app' = [app EXCEPT !.crawling_path = FALSE,
                                    !.analyzed = tasks'[n].result.dir]
            ELSE app' = [app EXCEPT !.crawling_path = FALSE, !.error = Some(IoError)]

C16_CancelDoesNotInterrupt ==
    /\ [][CancelOnlyClearsFlag]_vars
    /\ [][DeliveryWritesResult]_vars
    /\ \A n \in TaskIds :
          (n <= Len(tasks) /\ tasks[n].running /\ tasks[n].cancelled)
              ~> (n <= Len(tasks) /\ ~tasks[n].running)

\* a scan cancelled in flight has been delivered and its tree is the one shown
C16_Witness ==
    \E n \in 1..Len(tasks) :
        /\ tasks[n].cancelled
        /\ SucceededTask(n)
        /\ app.analyzed = tasks[n].result.dir
        /\ ~app.crawling_path

(***************************************************************************)
(* C19: two scans requested one after the other, both successful, both     *)
(* delivered, the path not changed since the second request: the tree      *)
(* shown is the one of the second request (analyzed.path = crawl_path).    *)
(***************************************************************************)
C19_LastRequestedScanWins ==
    (/\ Len(tasks) = 2
     /\ SucceededTask(1)
     /\ SucceededTask(2)
     /\ app.crawl_path = tasks[2].path)
        => /\ app.analyzed # None
           /\ app.analyzed[1].path = app.crawl_path

(***************************************************************************)
(* C20: a failed scan leaves analyzed as it was, sets error and clears     *)
(* crawling_path; error, once set, is cleared by ClearError only; analyzed *)
(* is written by the delivery of a successful scan only.                   *)
(***************************************************************************)
FailureKeepsTree ==
    \A n \in TaskIds :
        (Delivered(n) /\ tasks'[n].result.tag = "Err") =>
            /\ app'.analyzed = app.analyzed
            /\ app'.error = Some(IoError)
            /\ ~app'.crawling_path
            /\ app'.crawl_path = app.crawl_path

ErrorStaysUntilCleared == (app.error # None /\ app'.error = None) => ClearError

OnlySuccessWritesTree ==
    app'.analyzed # app.analyzed =>
        \E n \in TaskIds :
            /\ Delivered(n)
            /\ tasks'[n].result.tag = "Ok"
            /\ app'.analyzed = tasks'[n].result.dir

C20_FailedScanKeepsTree ==
    /\ [][FailureKeepsTree]_vars
    /\ [][ErrorStaysUntilCleared]_vars
    /\ [][OnlySuccessWritesTree]_vars

\* a scan failed while a tree was shown: the tree is still there
C20_Witness ==
    /\ app.error = Some(IoError)
    /\ app.analyzed # None
    /\ \E n \in 1..Len(tasks) :
        /\ ~tasks[n].running
        /\ tasks[n].result.tag = "Err"
        /\ \E m \in 1..(n - 1) : SucceededTask(m)

(***************************************************************************)
(* Vocabulary of the claims about partition_view.rs                        *)
(***************************************************************************)
H == HeaderHeight(TEXT_SIZE)

\* every box of a list of boxes, at every depth
RECURSIVE Boxes(_)
Boxes(bs) == UNION {{bs[i]} \cup Boxes(bs[i].d.boxes) : i \in 1..Len(bs)}

\* the identifiers in the order the boxes were made: a box after the boxes
\* inside it, the boxes of a list from the first to the last
RECURSIVE IdsInOrder(_)
IdsInOrder(bs) ==
    IF bs = <<>> THEN <<>>
    ELSE IdsInOrder(Head(bs).d.boxes) \o <<Head(bs).idx>> \o IdsInOrder(Tail(bs))

IsDirBox(b) == b.analyzed_item # None /\ b.analyzed_item[1].kind = "Dir"

\* the rectangles of a Directory with the boxes made inside them: the
\* widget itself for the root, and every box of a Directory
DirRects ==
    {[w |-> state.contructed_for[1], h |-> state.contructed_for[2],
      dir |-> state.made_from[i], boxes |-> state.boxes] : i \in 1..Len(state.made_from)}
    \cup {[w |-> b.placement.w, h |-> b.placement.h,
           dir |-> b.analyzed_item[1], boxes |-> b.d.boxes] :
            b \in {x \in Boxes(state.boxes) : IsDirBox(x)}}

(***************************************************************************)
(* C12: the boxes of one rebuild carry identifiers that are pairwise       *)
(* different, increase strictly in the order the boxes were made, and      *)
(* differ from usize::MAX, the value of highlighted when no box is.        *)
(***************************************************************************)
C12_IdsUniqueAndIncreasing ==
    LET ids == IdsInOrder(state.boxes)
    IN  /\ \A i, j \in 1..Len(ids) : i < j => ids[i] < ids[j]
        /\ \A i \in 1..Len(ids) : ids[i] # USIZE_MAX /\ ids[i] < IDX

\* a later rebuild with boxes inside a box
C12_Witness ==
    /\ Len(IdsInOrder(state.boxes)) >= 4
    /\ IdsInOrder(state.boxes)[1] > 0
    /\ \E b \in Boxes(state.boxes) : Len(b.d.boxes) >= 2

(***************************************************************************)
(* C14 as stated: a Directory rectangle with height - H < H has no boxes   *)
(* inside it.                                                              *)
(***************************************************************************)
C14_NoBoxesWhenLessThanHeaderLeft ==
    state.made_from # None =>
        \A r \in DirRects : r.h - H < H => r.boxes = <<>>

(***************************************************************************)
(* C14 amended: a Directory rectangle has no boxes inside it when its own  *)
(* height is below H; from H on it holds the boxes of partition on the     *)
(* rectangle less the header, at least one if the directory has children.  *)
(***************************************************************************)
C14_NoBoxesWhenLowerThanHeader ==
    state.made_from # None =>
        \A r \in DirRects :
            /\ r.h < H => r.boxes = <<>>
            /\ r.h >= H =>
                /\ Len(r.boxes) = Len(partition(<<r.w, r.h - H>>, MINIMUM_AREA, r.dir))
                /\ r.dir.children # <<>> => r.boxes # <<>>

\* a Directory box at least H and less than 2H high, with a box inside it
C14_Witness ==
    /\ state.made_from # None
    /\ \E b \in Boxes(state.boxes) :
        /\ IsDirBox(b)
        /\ H <= b.placement.h
        /\ b.placement.h - H < H
        /\ b.d.boxes # <<>>

(***************************************************************************)
(* C15: a Directory rectangle lower than the header strip has no boxes     *)
(* inside it, and the boxes inside a Directory rectangle lie under its     *)
(* header strip and within its width and height.                           *)
(***************************************************************************)
C15_BoxesUnderHeaderInsideParent ==
    state.made_from # None =>
        \A r \in DirRects :
            /\ r.h < H => r.boxes = <<>>
            /\ \A i \in 1..Len(r.boxes) :
                LET c == r.boxes[i].placement
                IN  /\ c.y >= H
                    /\ c.y + c.h <= r.h
                    /\ c.x >= 0
                    /\ c.x + c.w <= r.w
                    /\ c.w >= 0
                    /\ c.h >= 0

\* a Directory box with two boxes of positive area inside it
C15_Witness ==
    /\ state.made_from # None
    /\ \E b \in Boxes(state.boxes) :
        /\ IsDirBox(b)
        /\ Len(b.d.boxes) = 2
        /\ \A i \in 1..2 : b.d.boxes[i].placement.h > 0 /\ b.d.boxes[i].placement.w > 0

(***************************************************************************)
(* C17: a left-button press over a box never fails.                        *)
(***************************************************************************)
C17_ClickNeverFails == gui_pc # "panicked"

(***************************************************************************)
(* C18: after layout the boxes of the view are those of the analyzed tree  *)
(* at the size of the widget.                                              *)
(***************************************************************************)
C18_BoxesAreOfCurrentTree ==
    (laid_out /\ GuiRunning) =>
        \E placing \in Placings, i0 \in 0..IDX :
            state.boxes = recursive_box(bounds, MINIMUM_AREA, app.analyzed[1],
                                        TEXT_SIZE, placing, i0).boxes
====
